---- MODULE Spec2Model ----
(***************************************************************************)
(* Smart-home sensor simulator (src/simulator/simulator.py).               *)
(*                                                                         *)
(* Units.  Temperatures (deg C) and humidities (% RH) are integers in      *)
(* hundredths: 19.0 is 1900.  Probabilities are integers in thousandths:   *)
(* 0.03 is 30, and a draw of random.random() is an integer u in 0..999.    *)
(* A timestamp is a record [hour, minute] of the local wall clock.         *)
(*                                                                         *)
(* Three specifications share the definitions:                             *)
(*   SpecFn    the generators as functions of (profile, now, random draw)  *)
(*   SpecWin   calls of simulate_window on the WINDOW_STATE store          *)
(*   SpecMain  main(): connect, the tick loop, publish, interrupt, cleanup *)
(***************************************************************************)
EXTENDS Integers, Sequences, FiniteSets, TLC

VARIABLES
    profile,        \* SpecFn: the profile argument of the call
    now,            \* SpecFn: the timestamp argument; SpecMain: main's local `now`
    call,           \* SpecFn: the last generator call and what it returned
    WINDOW_STATE,   \* the module-level dict room_id -> [open, minutes_left]
    lastCall,       \* the last simulate_window call: room, state on entry, return, draw
    owed,           \* history: per room, sampled duration minus OPEN reports so far
    pc,             \* SpecMain: position of main()
    room_i,         \* SpecMain: index of the room the for-loop is at
    clock,          \* SpecMain: the wall clock (minute of the day)
    elapsed,        \* SpecMain: minutes the wall clock has advanced since start
    slept,          \* SpecMain: whether the interval has passed in time.sleep
    humidity_value, \* SpecMain: main's local humidity_value of the current room
    sent,           \* SpecMain: readings handed to client.publish in the current tick
    payload,        \* SpecMain: the payload of the last publish_json call
    winUpdates,     \* SpecMain: per room, simulate_window calls in the current tick
    ticks,          \* SpecMain: ticks started
    attempts,       \* SpecMain: failed client.connect attempts
    connected,      \* SpecMain: the client holds a broker connection
    loopRunning,    \* SpecMain: the client's network loop thread is running
    failed,         \* SpecMain: a client.publish call has raised
    signal          \* SpecMain: the interrupt, and where main() was when it arrived

vars == <<profile, now, call, WINDOW_STATE, lastCall, owed, pc, room_i, clock,
          elapsed, slept, humidity_value, sent, payload, winUpdates, ticks,
          attempts, connected, loopRunning, failed, signal>>

fnVars   == <<profile, now, call>>
winVars  == <<WINDOW_STATE, lastCall, owed>>
mainVars == <<pc, room_i, clock, elapsed, slept, humidity_value, sent, payload,
              winUpdates, ticks, attempts, connected, loopRunning, failed, signal>>

(***************************************************************************)
(* Bounds of the model                                                     *)
(***************************************************************************)
\* random.gauss is unbounded: noise is drawn from multiples of NoiseStep
\* (hundredths) up to MaxNoise steps either side of 0, far past every clamp.
NoiseStep == 225
MaxNoise == 12
\* SpecMain: minutes the wall clock may advance, and failed connects modelled.
MaxElapsed == 2
MaxAttempts == 2

NoiseSet == {k * NoiseStep : k \in (0 - MaxNoise)..MaxNoise}

(***************************************************************************)
(* CONFIG                                                                  *)
(***************************************************************************)
ROOMS ==
    [room1 |-> [room |-> "kitchen", profile |-> "kitchen"],
     room2 |-> [room |-> "livingroom", profile |-> "livingroom"],
     room3 |-> [room |-> "bedroom", profile |-> "bedroom"]]

\* ROOMS.items() iterates in insertion order.
RoomOrder == <<"room1", "room2", "room3">>

RoomIds == DOMAIN ROOMS

SENSORS == {"temperature", "humidity", "window", "smoke"}

Profiles == {"kitchen", "livingroom", "bedroom"}

\* A profile name no branch of the generators knows takes their fallbacks.
ProfileInputs == Profiles \cup {"other"}

Hours == 0..23
Minutes == 0..59
Times == [hour : Hours, minute : Minutes]

(***************************************************************************)
(* UTILS                                                                   *)
(***************************************************************************)
Max2(a, b) == IF a >= b THEN a ELSE b
Min2(a, b) == IF a <= b THEN a ELSE b
SetMin(S) == CHOOSE x \in S : \A y \in S : x <= y

clamp_noupper(value, min_val, max_val) == Max2(min_val, value)
clamp(value, min_val, max_val) == Max2(min_val, Min2(max_val, value))

\* round(x, 1) of a non-negative x given in hundredths.  A value ending in 5
\* hundredths has no exact float, so the float nearest to it rounds to either
\* neighbouring tenth: both outcomes are kept.
round1(x) ==
    LET r == x % 10
    IN  IF r < 5 THEN {x - r}
        ELSE IF r > 5 THEN {x - r + 10}
        ELSE {x - 5, x + 5}

(***************************************************************************)
(* TEMPERATURE SIMULATION                                                  *)
(***************************************************************************)
\* An if/elif chain `lo <= hour < hi: value` as a sequence of <<lo, hi, value>>;
\* the first step whose test holds decides, the else branch otherwise.
StepValue(steps, else_value, hour) ==
    LET hits == {i \in 1..Len(steps) : steps[i][1] <= hour /\ hour < steps[i][2]}
    IN  IF hits = {} THEN else_value ELSE steps[SetMin(hits)][3]

TempSteps(p) ==
    CASE p = "bedroom"    -> <<<<0, 6, 1900>>, <<6, 9, 2000>>, <<9, 18, 2100>>, <<18, 22, 2200>>>>
      [] p = "livingroom" -> <<<<0, 6, 2000>>, <<6, 9, 2100>>, <<9, 18, 2200>>, <<18, 23, 2300>>>>
      [] p = "kitchen"    -> <<<<0, 6, 2000>>, <<6, 9, 2100>>, <<9, 18, 2100>>, <<18, 23, 2200>>>>
      [] OTHER            -> <<>>

TempElse(p) ==
    CASE p = "bedroom"    -> 2000
      [] p = "livingroom" -> 2100
      [] p = "kitchen"    -> 2100
      [] OTHER            -> 2100

\* Cooking events in kitchen: hour 12 or 19, minute below 45.
CookingEvent_upto45(t) ==
    (t.hour = 12 /\ 0 <= t.minute /\ t.minute <= 45) \/ (t.hour = 19 /\ 0 <= t.minute /\ t.minute <= 45)
CookingEvent(t) ==
    (t.hour = 12 /\ 0 <= t.minute /\ t.minute < 45) \/ (t.hour = 19 /\ 0 <= t.minute /\ t.minute < 45)

get_temperature_baseline(p, t) ==
    LET base == StepValue(TempSteps(p), TempElse(p), t.hour)
    IN  IF p = "kitchen" /\ CookingEvent(t) THEN base + 300 ELSE base

TempBounds(p) ==
    CASE p = "bedroom"    -> [lo |-> 1600, hi |-> 2600]
      [] p = "livingroom" -> [lo |-> 1800, hi |-> 2800]
      [] OTHER            -> [lo |-> 1800, hi |-> 3000]

calculate_heat_index(temp_c, humidity) ==
    IF temp_c < 2400 THEN temp_c
    ELSE LET rh    == clamp(humidity, 0, 10000)
             extra == Max2(0, (rh - 4000) \div 10)
         IN  Min2(temp_c + extra, temp_c + 600)

TempStatus(temp) ==
    IF temp < 1800 THEN "too_cold" ELSE IF temp > 2600 THEN "too_hot" ELSE "normal"

\* The set of results simulate_temperature can return for one noise draw
\* (more than one only where round() meets a tie).
simulate_temperature(p, t, humidity, noise) ==
    LET baseline == get_temperature_baseline(p, t)
        b        == TempBounds(p)
        temps    == round1(clamp(baseline + noise, b.lo, b.hi))
    IN  UNION {{[value |-> temp, heat_index |-> hi, status |-> TempStatus(temp)] :
                    hi \in round1(calculate_heat_index(temp, humidity))} :
               temp \in temps}

(***************************************************************************)
(* HUMIDITY SIMULATION                                                     *)
(***************************************************************************)
HumSteps(p) ==
    CASE p \in {"bedroom", "livingroom"} -> <<<<0, 6, 4700>>, <<6, 18, 4300>>>>
      [] p = "kitchen"                   -> <<<<0, 6, 4500>>, <<6, 18, 4700>>>>
      [] OTHER                           -> <<>>

HumElse(p) ==
    CASE p \in {"bedroom", "livingroom"} -> 4600
      [] p = "kitchen"                   -> 5000
      [] OTHER                           -> 4500

get_humidity_baseline(p, t) ==
    LET base == StepValue(HumSteps(p), HumElse(p), t.hour)
    IN  IF p = "kitchen" /\ CookingEvent(t) THEN base + 2000 ELSE base

HumBounds(p) ==
    IF p \in {"bedroom", "livingroom"}
    THEN [lo |-> 2500, hi |-> 6500]
    ELSE [lo |-> 3000, hi |-> 8000]

HumStatus(hum) ==
    IF hum < 3000 THEN "too_dry" ELSE IF hum > 6000 THEN "too_humid" ELSE "normal"

simulate_humidity(p, t, noise) ==
    LET baseline == get_humidity_baseline(p, t)
        b        == HumBounds(p)
    IN  {[value |-> hum, heat_index |-> 0, status |-> HumStatus(hum)] :
            hum \in round1(clamp(baseline + noise, b.lo, b.hi))}

(***************************************************************************)
(* SMOKE SIMULATION                                                        *)
(***************************************************************************)
simulate_smoke_allrooms(p, t) ==
    IF t.hour = 12 /\ 20 <= t.minute /\ t.minute < 23 THEN 1
    ELSE IF t.hour = 19 /\ 10 <= t.minute /\ t.minute < 13 THEN 1
    ELSE 0
simulate_smoke(p, t) ==
    IF p # "kitchen" THEN 0
    ELSE IF t.hour = 12 /\ 20 <= t.minute /\ t.minute < 23 THEN 1
    ELSE IF t.hour = 19 /\ 10 <= t.minute /\ t.minute < 13 THEN 1
    ELSE 0

(***************************************************************************)
(* WINDOW SIMULATION                                                       *)
(***************************************************************************)
\* The probability (thousandths) of starting an open episode in this tick.
open_prob_cooking45(p, t) ==
    CASE p = "bedroom" ->
            IF (7 <= t.hour /\ t.hour < 9) \/ (20 <= t.hour /\ t.hour < 21) THEN 30 ELSE 2
      [] p = "livingroom" ->
            IF 10 <= t.hour /\ t.hour < 18 THEN 20 ELSE 3
      [] p = "kitchen" ->
            IF CookingEvent(t) THEN 50 ELSE 4
      [] OTHER -> 0
open_prob(p, t) ==
    CASE p = "bedroom" ->
            IF (7 <= t.hour /\ t.hour < 9) \/ (20 <= t.hour /\ t.hour < 21) THEN 30 ELSE 2
      [] p = "livingroom" ->
            IF 10 <= t.hour /\ t.hour < 18 THEN 20 ELSE 3
      [] p = "kitchen" ->
            IF (t.hour = 12 /\ 0 <= t.minute /\ t.minute < 60)
               \/ (t.hour = 19 /\ 0 <= t.minute /\ t.minute < 60)
            THEN 50 ELSE 4
      [] OTHER -> 0

\* The branch taken while the window is open: count down, close at 0.
WindowCountdown_closeat1(state) ==
    LET left == IF state.minutes_left > 0 THEN state.minutes_left - 1 ELSE state.minutes_left
    IN  [open |-> IF left <= 1 THEN FALSE ELSE state.open, minutes_left |-> left, drew |-> FALSE]
WindowCountdown_keepopen(state) ==
    LET left == IF state.minutes_left > 0 THEN state.minutes_left - 1 ELSE state.minutes_left
    IN  [open |-> IF left < 0 THEN FALSE ELSE state.open, minutes_left |-> left, drew |-> FALSE]
WindowCountdown(state) ==
    LET left == IF state.minutes_left > 0 THEN state.minutes_left - 1 ELSE state.minutes_left
    IN  [open |-> IF left <= 0 THEN FALSE ELSE state.open, minutes_left |-> left, drew |-> FALSE]

\* The branch taken while the window is closed: u is the draw of random.random()
\* (thousandths), d the draw of random.randint(10, 30), used only on opening.
WindowMaybeOpen(state, prob, u, d) ==
    IF u < prob
    THEN [open |-> TRUE, minutes_left |-> d, drew |-> TRUE]
    ELSE [open |-> state.open, minutes_left |-> state.minutes_left, drew |-> FALSE]

\* The return statement, given the state on entry and the state after the update.
WindowReturn_entry(before, after) == IF before.open THEN "OPEN" ELSE "CLOSED"
WindowReturn(before, after) == IF after.open THEN "OPEN" ELSE "CLOSED"

\* The state after the call, whether a duration was drawn, and the value returned.
simulate_window(state, p, t, u, d) ==
    LET after == IF state.open
                 THEN WindowCountdown(state)
                 ELSE WindowMaybeOpen(state, open_prob(p, t), u, d)
    IN  [open |-> after.open, minutes_left |-> after.minutes_left,
         drew |-> after.drew, ret |-> WindowReturn(state, after)]

\* random.randint(10, 30)
Durations == 10..30

\* Draws of random.random() in thousandths, on both sides of every probability.
USamples == {0, 3, 999}

InitWindow == [room_id \in RoomIds |-> [open |-> FALSE, minutes_left |-> 0]]

NoCall == [room |-> "none", wasOpen |-> FALSE, ret |-> "CLOSED", drew |-> FALSE]

\* One call simulate_window(room_id, profile, t) with random draws u and d.
SimulateWindow(room_id, t, u, d) ==
    LET r == simulate_window(WINDOW_STATE[room_id], ROOMS[room_id].profile, t, u, d)
        due == IF r.drew THEN d ELSE owed[room_id]
    IN  /\ WINDOW_STATE' = [WINDOW_STATE EXCEPT
                                ![room_id] = [open |-> r.open, minutes_left |-> r.minutes_left]]
        /\ lastCall' = [room |-> room_id, wasOpen |-> WINDOW_STATE[room_id].open,
                        ret |-> r.ret, drew |-> r.drew]
        /\ owed' = [owed EXCEPT ![room_id] = IF r.ret = "OPEN" THEN due - 1 ELSE due]

\* The random draws one call makes: none while the window is open (u and d are
\* placeholders); random.random() while it is closed, and random.randint only
\* when that draw falls below the probability.
RandomDraws(room_id, t, durations) ==
    IF WINDOW_STATE[room_id].open
    THEN {<<0, 0>>}
    ELSE UNION {{<<u, d>> : d \in IF u < open_prob(ROOMS[room_id].profile, t)
                                  THEN durations ELSE {0}} :
                u \in USamples}

(***************************************************************************)
(* Values of the variables a specification does not use                    *)
(***************************************************************************)
NoResult == [fn |-> "none", value |-> 0, heat_index |-> 0, status |-> "none"]

NoSignal == [arrived |-> FALSE, at |-> "none", ticks |-> 0, room_i |-> 0]

NoPayload == [sensor |-> "none", value |-> 0, heat_index |-> 0, text |-> "none"]

FnIdle ==
    /\ profile = "none"
    /\ now = [hour |-> 0, minute |-> 0]
    /\ call = NoResult

WinIdle ==
    /\ WINDOW_STATE = InitWindow
    /\ lastCall = NoCall
    /\ owed = [room_id \in RoomIds |-> 0]

MainIdle ==
    /\ pc = "idle"
    /\ room_i = 1
    /\ clock = 0
    /\ elapsed = 0
    /\ slept = FALSE
    /\ humidity_value = 0
    /\ sent = <<>>
    /\ payload = NoPayload
    /\ winUpdates = [room_id \in RoomIds |-> 0]
    /\ ticks = 0
    /\ attempts = 0
    /\ connected = FALSE
    /\ loopRunning = FALSE
    /\ failed = FALSE
    /\ signal = NoSignal

(***************************************************************************)
(* SpecFn: each generator applied to inputs drawn at the start             *)
(***************************************************************************)
\* humidity_value arguments of simulate_temperature (values of one decimal).
HumiditySamples == {2500, 4560, 8000}

\* Window stores the generators may be called beside.
WindowSamples ==
    {InitWindow, [InitWindow EXCEPT !["room1"] = [open |-> TRUE, minutes_left |-> 10]]}

InitFn ==
    /\ profile \in ProfileInputs
    /\ now \in Times
    /\ call = NoResult
    /\ WINDOW_STATE \in WindowSamples
    /\ lastCall = NoCall
    /\ owed = [room_id \in RoomIds |->
                 IF WINDOW_STATE[room_id].open THEN WINDOW_STATE[room_id].minutes_left - 1 ELSE 0]
    /\ MainIdle

Returned(fn, value) == [fn |-> fn, value |-> value, heat_index |-> 0, status |-> "none"]

FnTemperatureBaseline ==
    /\ call = NoResult
    /\ call' = Returned("get_temperature_baseline", get_temperature_baseline(profile, now))
    /\ UNCHANGED <<profile, now, winVars, mainVars>>

FnHumidityBaseline ==
    /\ call = NoResult
    /\ call' = Returned("get_humidity_baseline", get_humidity_baseline(profile, now))
    /\ UNCHANGED <<profile, now, winVars, mainVars>>

FnSimulateTemperature ==
    /\ call = NoResult
    /\ \E noise \in NoiseSet, humidity \in HumiditySamples :
          \E r \in simulate_temperature(profile, now, humidity, noise) :
             call' = [fn |-> "simulate_temperature", value |-> r.value,
                      heat_index |-> r.heat_index, status |-> r.status]
    /\ UNCHANGED <<profile, now, winVars, mainVars>>

FnSimulateHumidity ==
    /\ call = NoResult
    /\ \E noise \in NoiseSet :
          \E r \in simulate_humidity(profile, now, noise) :
             call' = [fn |-> "simulate_humidity", value |-> r.value,
                      heat_index |-> 0, status |-> r.status]
    /\ UNCHANGED <<profile, now, winVars, mainVars>>

FnSimulateSmoke ==
    /\ call = NoResult
    /\ call' = Returned("simulate_smoke", simulate_smoke(profile, now))
    /\ UNCHANGED <<profile, now, winVars, mainVars>>

\* The probability simulate_window computes for a closed window.
FnOpenProb ==
    /\ call = NoResult
    /\ call' = Returned("open_prob", open_prob(profile, now))
    /\ UNCHANGED <<profile, now, winVars, mainVars>>

NextFn ==
    \/ FnTemperatureBaseline
    \/ FnHumidityBaseline
    \/ FnSimulateTemperature
    \/ FnSimulateHumidity
    \/ FnSimulateSmoke
    \/ FnOpenProb

SpecFn == InitFn /\ [][NextFn]_vars

(***************************************************************************)
(* SpecWin: calls of simulate_window, any room, any time of day            *)
(***************************************************************************)
\* Timestamps on both sides of every time-of-day test of open_prob.
WinTimes ==
    {[hour |-> 3, minute |-> 0], [hour |-> 12, minute |-> 50]}

InitWin == FnIdle /\ WinIdle /\ MainIdle

WindowCall ==
    /\ \E room_id \in RoomIds, t \in WinTimes :
          \E draw \in RandomDraws(room_id, t, Durations) :
             SimulateWindow(room_id, t, draw[1], draw[2])
    /\ UNCHANGED <<fnVars, mainVars>>

NextWin == WindowCall

SpecWin == InitWin /\ [][NextWin]_vars

(***************************************************************************)
(* MAIN LOOP (SpecMain)                                                    *)
(***************************************************************************)
\* Positions of main(): before the try statement, inside it, and after it.
PreTry == {"connect", "loop_start"}
InTick == {"humidity", "temperature", "window", "smoke"}
InTry == {"tick", "sleep"} \cup InTick
Ended == {"done", "raised", "killed"}

\* Wall clocks the run may start at (minute of the day).
StartClocks == {12 * 60 + 44, 23 * 60 + 59}

\* get_local_time(): the local time of day the wall clock shows.
get_local_time == [hour |-> (clock % 1440) \div 60, minute |-> clock % 60]

\* Noise draws of the main loop: far below, at, and far above the baseline.
MainNoise == {0 - MaxNoise * NoiseStep, 0, MaxNoise * NoiseStep}

\* Episode durations drawn in the main loop: the two ends of randint(10, 30).
MainDurations == {10, 30}

InitMain ==
    /\ FnIdle
    /\ WinIdle
    /\ pc = "connect"
    /\ room_i = 1
    /\ clock \in StartClocks
    /\ elapsed = 0
    /\ slept = FALSE
    /\ humidity_value = 0
    /\ sent = <<>>
    /\ payload = NoPayload
    /\ winUpdates = [room_id \in RoomIds |-> 0]
    /\ ticks = 0
    /\ attempts = 0
    /\ connected = FALSE
    /\ loopRunning = FALSE
    /\ failed = FALSE
    /\ signal = NoSignal

\* client.connect raises: print, time.sleep(2), try again.
ConnectFails ==
    /\ pc = "connect"
    /\ attempts < MaxAttempts
    /\ attempts' = attempts + 1
    /\ UNCHANGED <<fnVars, winVars, pc, room_i, clock, elapsed, slept, humidity_value,
                   sent, payload, winUpdates, ticks, connected, loopRunning, failed, signal>>

\* client.connect returns: break out of the retry loop.
ConnectSucceeds ==
    /\ pc = "connect"
    /\ connected' = TRUE
    /\ pc' = "loop_start"
    /\ UNCHANGED <<fnVars, winVars, room_i, clock, elapsed, slept, humidity_value, sent,
                   payload, winUpdates, ticks, attempts, loopRunning, failed, signal>>

\* client.loop_start(), then the try statement is entered.
LoopStart ==
    /\ pc = "loop_start"
    /\ loopRunning' = TRUE
    /\ pc' = "tick"
    /\ UNCHANGED <<fnVars, winVars, room_i, clock, elapsed, slept, humidity_value, sent,
                   payload, winUpdates, ticks, attempts, connected, failed, signal>>

\* Top of `while True`: now = get_local_time(), and the for-loop starts.
TickStart ==
    /\ pc = "tick"
    /\ now' = get_local_time
    /\ ticks' = ticks + 1
    /\ room_i' = 1
    /\ sent' = <<>>
    /\ winUpdates' = [room_id \in RoomIds |-> 0]
    /\ pc' = "humidity"
    /\ UNCHANGED <<profile, call, winVars, clock, elapsed, slept, humidity_value, payload,
                   attempts, connected, loopRunning, failed, signal>>

\* publish_json(client, topic, payload): client.publish takes the message, or
\* raises.  Nothing in main() catches the exception: the try statement has only
\* `except KeyboardInterrupt`, so control goes to the finally clause.
publish_json(sensor, p, next_pc) ==
    /\ payload' = p
    /\ \/ /\ sent' = Append(sent, [timestamp |-> now, room_id |-> RoomOrder[room_i],
                                  sensor |-> sensor])
          /\ pc' = next_pc
          /\ UNCHANGED failed
       \/ /\ failed' = TRUE
          /\ pc' = "finally"
          /\ UNCHANGED sent

\* 1) Humidity
Humidity ==
    /\ pc = "humidity"
    /\ \E noise \in MainNoise :
          \E r \in simulate_humidity(ROOMS[RoomOrder[room_i]].profile, now, noise) :
             /\ humidity_value' = r.value
             /\ publish_json("humidity",
                             [sensor |-> "humidity", value |-> r.value, heat_index |-> 0,
                              text |-> r.status],
                             "temperature")
    /\ UNCHANGED <<fnVars, winVars, room_i, clock, elapsed, slept, winUpdates, ticks,
                   attempts, connected, loopRunning, signal>>

\* 2) Temperature (+ heat index)
Temperature ==
    /\ pc = "temperature"
    /\ \E noise \in MainNoise :
          \E r \in simulate_temperature(ROOMS[RoomOrder[room_i]].profile, now,
                                        humidity_value, noise) :
             publish_json("temperature",
                          [sensor |-> "temperature", value |-> r.value,
                           heat_index |-> r.heat_index, text |-> r.status],
                          "window")
    /\ UNCHANGED <<fnVars, winVars, room_i, clock, elapsed, slept, humidity_value,
                   winUpdates, ticks, attempts, connected, loopRunning, signal>>

\* 3) Window
Window ==
    /\ pc = "window"
    /\ \E draw \in RandomDraws(RoomOrder[room_i], now, MainDurations) :
          /\ SimulateWindow(RoomOrder[room_i], now, draw[1], draw[2])
          /\ publish_json("window",
                          [sensor |-> "window", value |-> 0, heat_index |-> 0,
                           text |-> lastCall'.ret],
                          "smoke")
    /\ winUpdates' = [winUpdates EXCEPT ![RoomOrder[room_i]] = @ + 1]
    /\ UNCHANGED <<fnVars, room_i, clock, elapsed, slept, humidity_value, ticks,
                   attempts, connected, loopRunning, signal>>

\* 4) Smoke, then the next room, or time.sleep after the last.
Smoke ==
    /\ pc = "smoke"
    /\ LET alarm == simulate_smoke(ROOMS[RoomOrder[room_i]].profile, now)
       IN  publish_json("smoke",
                        [sensor |-> "smoke", value |-> alarm, heat_index |-> 0,
                         text |-> IF alarm = 1 THEN "alarm" ELSE "normal"],
                        IF room_i < Len(RoomOrder) THEN "humidity" ELSE "sleep")
    /\ room_i' = IF pc' = "humidity" THEN room_i + 1 ELSE room_i
    /\ slept' = FALSE
    /\ UNCHANGED <<fnVars, winVars, clock, elapsed, humidity_value, winUpdates, ticks,
                   attempts, connected, loopRunning, signal>>

\* The wall clock reaches the next minute; a sleeping main() has then slept
\* SIMULATION_INTERVAL_SECONDS.
TimePasses ==
    /\ pc \notin Ended
    /\ elapsed < MaxElapsed
    /\ clock' = clock + 1
    /\ elapsed' = elapsed + 1
    /\ slept' = (slept \/ pc = "sleep")
    /\ UNCHANGED <<fnVars, winVars, pc, room_i, humidity_value, sent, payload, winUpdates,
                   ticks, attempts, connected, loopRunning, failed, signal>>

\* time.sleep returns: back to the top of `while True`.
WakeUp ==
    /\ pc = "sleep"
    /\ slept
    /\ pc' = "tick"
    /\ UNCHANGED <<fnVars, winVars, room_i, clock, elapsed, slept, humidity_value, sent,
                   payload, winUpdates, ticks, attempts, connected, loopRunning, failed,
                   signal>>

\* SIGINT: KeyboardInterrupt is raised in main() wherever it is.  Inside the try
\* statement the except clause takes it; before the try statement nothing does
\* (the retry loop catches Exception only) and the process ends at once.
Interrupt ==
    /\ ~signal.arrived
    /\ pc \in PreTry \cup InTry
    /\ signal' = [arrived |-> TRUE, at |-> pc, ticks |-> ticks, room_i |-> room_i]
    /\ pc' = IF pc \in PreTry THEN "killed" ELSE "except"
    /\ UNCHANGED <<fnVars, winVars, room_i, clock, elapsed, slept, humidity_value, sent,
                   payload, winUpdates, ticks, attempts, connected, loopRunning, failed>>

\* except KeyboardInterrupt: print("Stopping simulator...")
Except ==
    /\ pc = "except"
    /\ pc' = "finally"
    /\ UNCHANGED <<fnVars, winVars, room_i, clock, elapsed, slept, humidity_value, sent,
                   payload, winUpdates, ticks, attempts, connected, loopRunning, failed,
                   signal>>

\* finally: client.loop_stop(), client.disconnect(); then main() returns, or the
\* exception of a failed publish goes on up and ends the process.
Finally ==
    /\ pc = "finally"
    /\ loopRunning' = FALSE
    /\ connected' = FALSE
    /\ pc' = IF failed THEN "raised" ELSE "done"
    /\ UNCHANGED <<fnVars, winVars, room_i, clock, elapsed, slept, humidity_value, sent,
                   payload, winUpdates, ticks, attempts, failed, signal>>

NextMain ==
    \/ ConnectFails
    \/ ConnectSucceeds
    \/ LoopStart
    \/ TickStart
    \/ Humidity
    \/ Temperature
    \/ Window
    \/ Smoke
    \/ TimePasses
    \/ WakeUp
    \/ Interrupt
    \/ Except
    \/ Finally

SpecMain == InitMain /\ [][NextMain]_vars

(***************************************************************************)
(* Properties of the generators (SpecFn)                                   *)
(***************************************************************************)
Within(lo, x, hi) == lo <= x /\ x <= hi

\* C4: for every declared profile, timestamp and noise draw, simulate_temperature
\* returns a value within the profile's clamp bounds (bedroom 16.0-26.0,
\* livingroom 18.0-28.0, kitchen 18.0-30.0) and simulate_humidity one within its
\* bounds (bedroom and livingroom 25.0-65.0, kitchen 30.0-80.0).
C4_OutputsWithinClampBounds ==
    /\ call.fn = "simulate_temperature" =>
          /\ profile = "bedroom" => Within(1600, call.value, 2600)
          /\ profile = "livingroom" => Within(1800, call.value, 2800)
          /\ profile = "kitchen" => Within(1800, call.value, 3000)
    /\ call.fn = "simulate_humidity" =>
          /\ profile \in {"bedroom", "livingroom"} => Within(2500, call.value, 6500)
          /\ profile = "kitchen" => Within(3000, call.value, 8000)

\* Noise large enough to leave the range was drawn and the output sits on the bound:
\* the bedroom baseline at 03:00 is 19.0, and 26.0 - 19.0 is no multiple of the step.
C4_Witness ==
    /\ call.fn = "simulate_temperature"
    /\ profile = "bedroom"
    /\ now = [hour |-> 3, minute |-> 0]
    /\ call.value = 2600

SmokeInterval(t) ==
    \/ t.hour = 12 /\ t.minute \in 20..22
    \/ t.hour = 19 /\ t.minute \in 10..12

\* C5: simulate_smoke returns 1 exactly when the profile is kitchen and the time
\* is in 12:20-12:22 or 19:10-19:12, 0 for every other profile at every time,
\* whatever the window store holds, and the call leaves the window store as it was.
C5_SmokeDeterministic ==
    /\ [](call.fn = "simulate_smoke" =>
            /\ call.value \in {0, 1}
            /\ call.value = 1 <=> (profile = "kitchen" /\ SmokeInterval(now)))
    /\ [][call'.fn = "simulate_smoke" =>
            /\ WINDOW_STATE' = WINDOW_STATE
            /\ lastCall' = lastCall]_vars

C5_Witness ==
    /\ call.fn = "simulate_smoke"
    /\ profile = "kitchen"
    /\ now = [hour |-> 19, minute |-> 12]
    /\ call.value = 1
    /\ WINDOW_STATE["room1"].open

\* The step function read as a table: the else branch is the step from the last
\* tested hour to midnight.
StepTable(steps, else_value) == steps \o <<<<steps[Len(steps)][2], 24, else_value>>>>

StepsAt(table, h) == {i \in 1..Len(table) : table[i][1] <= h /\ h < table[i][2]}

CookingWindow(t) == t.hour \in {12, 19} /\ t.minute \in 0..44

BaselineIsOneStep(table, boost) ==
    /\ Cardinality(StepsAt(table, now.hour)) = 1
    /\ \A i \in StepsAt(table, now.hour) :
          call.value = table[i][3]
                       + (IF profile = "kitchen" /\ CookingWindow(now) THEN boost ELSE 0)

\* C8: for every declared profile and hour, each baseline is the value of exactly
\* one step of the profile's step function; for kitchen it is raised by 3.0
\* (temperature) and 20.0 (humidity) exactly in 12:00-12:44 and 19:00-19:44, so
\* the kitchen temperature baseline at 12:30 is 24.0.
C8_BaselineStepFunction ==
    profile \in Profiles =>
        /\ call.fn = "get_temperature_baseline" =>
              BaselineIsOneStep(StepTable(TempSteps(profile), TempElse(profile)), 300)
        /\ call.fn = "get_humidity_baseline" =>
              BaselineIsOneStep(StepTable(HumSteps(profile), HumElse(profile)), 2000)
        /\ (/\ call.fn = "get_temperature_baseline"
            /\ profile = "kitchen"
            /\ now = [hour |-> 12, minute |-> 30]) => call.value = 2400

C8_Witness ==
    /\ call.fn = "get_humidity_baseline"
    /\ profile = "kitchen"
    /\ now = [hour |-> 19, minute |-> 44]
    /\ call.value = 7000

KitchenClosedProb ==
    /\ call.fn = "open_prob"
    /\ profile = "kitchen"
    /\ ~WINDOW_STATE["room1"].open

\* C9 as claimed: while the kitchen window is closed the probability is the
\* elevated one exactly in the cooking windows 12:00-12:44 and 19:00-19:44, and
\* the background one at every other time.
C9_ElevatedInCookingWindows ==
    KitchenClosedProb => call.value = (IF CookingWindow(now) THEN 50 ELSE 4)

\* C9 amended: while the kitchen window is closed the probability is the elevated
\* one exactly during the hours 12 and 19 (12:00-12:59, 19:00-19:59), which
\* contain the cooking windows, and the background one at every other time.
C9_ElevatedInCookingHours ==
    KitchenClosedProb => call.value = (IF now.hour \in {12, 19} THEN 50 ELSE 4)

\* Past the cooking window, inside the cooking hour: still the elevated value.
C9_Witness ==
    /\ KitchenClosedProb
    /\ now = [hour |-> 12, minute |-> 45]
    /\ call.value = 50

(***************************************************************************)
(* Properties of the window state machine (SpecWin)                        *)
(***************************************************************************)
\* C1: a call that opens a room's window draws d in 10..30 and reports OPEN, the
\* first of exactly d consecutive OPEN reports (owed counts those still due);
\* the call after them reports CLOSED, and no call made while the window is
\* open draws a duration.
C1_EpisodeLength ==
    \A r \in RoomIds : lastCall.room = r =>
        /\ lastCall.drew =>
              /\ ~lastCall.wasOpen
              /\ lastCall.ret = "OPEN"
              /\ owed[r] \in 9..29
        /\ lastCall.wasOpen => ~lastCall.drew
        /\ lastCall.ret = "OPEN" => owed[r] >= 0
        /\ lastCall.ret = "CLOSED" => owed[r] = 0

\* An episode has run its course: the last OPEN was reported, then CLOSED.
C1_Witness ==
    /\ lastCall.room = "room3"
    /\ lastCall.wasOpen
    /\ lastCall.ret = "CLOSED"
    /\ owed["room3"] = 0

\* C2: the value simulate_window returns is the room's window state after the
\* call; an opening call returns OPEN, a closing call CLOSED, and a window open
\* with minutes_left = 1 on entry is closed after the call, which returns CLOSED.
C2_ReturnsStateAfterUpdate ==
    /\ [](lastCall.room \in RoomIds =>
            /\ lastCall.ret = (IF WINDOW_STATE[lastCall.room].open THEN "OPEN" ELSE "CLOSED")
            /\ lastCall.drew => lastCall.ret = "OPEN")
    /\ [][\A r \in RoomIds :
            (/\ lastCall'.room = r
             /\ WINDOW_STATE'[r] # WINDOW_STATE[r]
             /\ WINDOW_STATE[r] = [open |-> TRUE, minutes_left |-> 1]) =>
                (~WINDOW_STATE'[r].open /\ lastCall'.ret = "CLOSED")]_vars

C2_Witness ==
    /\ lastCall.room = "room1"
    /\ lastCall.wasOpen
    /\ ~WINDOW_STATE["room1"].open
    /\ lastCall.ret = "CLOSED"
    /\ WINDOW_STATE["room2"].open

\* C10: every room starts CLOSED with 0 minutes left; between calls every room
\* is open exactly when minutes_left >= 1, minutes_left is in 0..30, the rooms
\* of the store are the configured rooms, and a call for one room leaves every
\* other room's window state unchanged.
C10_WindowStoreInvariant ==
    /\ \A r \in RoomIds : WINDOW_STATE[r] = [open |-> FALSE, minutes_left |-> 0]
    /\ [](/\ DOMAIN WINDOW_STATE = RoomIds
          /\ \A r \in RoomIds :
                /\ WINDOW_STATE[r].open <=> WINDOW_STATE[r].minutes_left >= 1
                /\ WINDOW_STATE[r].minutes_left \in 0..30)
    /\ [][\A r \in RoomIds :
            r # lastCall'.room => WINDOW_STATE'[r] = WINDOW_STATE[r]]_vars

C10_Witness ==
    /\ WINDOW_STATE["room1"] = [open |-> TRUE, minutes_left |-> 30]
    /\ WINDOW_STATE["room2"] = [open |-> TRUE, minutes_left |-> 1]
    /\ WINDOW_STATE["room3"] = [open |-> FALSE, minutes_left |-> 0]
    /\ lastCall.room = "room1"

(***************************************************************************)
(* Properties of the main loop (SpecMain)                                  *)
(***************************************************************************)
ReadingsOf(r, sensor) ==
    {i \in 1..Len(sent) : sent[i].room_id = r /\ sent[i].sensor = sensor}

\* The tick handed the sink one reading per room and sensor type, each with the
\* tick's timestamp, and updated each room's window once.
TickComplete ==
    \A r \in RoomIds :
        /\ winUpdates[r] = 1
        /\ \A sensor \in SENSORS :
              /\ Cardinality(ReadingsOf(r, sensor)) = 1
              /\ \A i \in ReadingsOf(r, sensor) : sent[i].timestamp = now

\* A tick was started and main() is no longer inside its for-loop.
TickOver == ticks >= 1 /\ pc \notin InTick

\* A tick that reaches time.sleep has published every reading.
TickCompleteAtSleep == pc = "sleep" => TickComplete

\* C3: after a publish call has raised, main() is still in its tick loop (the
\* process has not left it for the finally clause), and when that tick is over
\* every room's window has been updated and every other reading was published.
C3_PublishFailureIsolated ==
    (failed /\ ~signal.arrived) =>
        /\ pc \in InTry
        /\ TickOver =>
              /\ \A r \in RoomIds : winUpdates[r] = 1
              /\ Len(sent) >= Cardinality(RoomIds) * Cardinality(SENSORS) - 1

\* C6: every reading of a tick carries the one timestamp captured at its start,
\* no room and sensor type is published or updated twice in a tick, and once the
\* tick is over each room has had exactly one reading of each sensor type handed
\* to the sink and its window state updated exactly once.
C6_OneReadingPerSensorPerTick ==
    /\ \A i \in 1..Len(sent) : sent[i].timestamp = now
    /\ \A r \in RoomIds :
          /\ winUpdates[r] <= 1
          /\ \A sensor \in SENSORS : Cardinality(ReadingsOf(r, sensor)) <= 1
    /\ TickOver => TickComplete

\* The part of C7 about the transport: once the process has ended after an
\* interrupt, the network loop is stopped and the connection released.
TransportReleasedAtEnd ==
    (signal.arrived /\ pc \in Ended) => (~loopRunning /\ ~connected)

\* The part of C7 about the tick in progress: an interrupt that arrives inside a
\* tick does not cut it short; when the process has ended every room was published.
TickNotCutShort ==
    (signal.arrived /\ signal.at \in InTick /\ pc \in Ended) => TickComplete

\* C7: once the interrupt has arrived no further tick is started; a tick that
\* was in progress when it arrived still publishes every room; and the network
\* loop is stopped and the connection released before the process ends.
C7_OrderlyShutdown ==
    /\ signal.arrived => ticks = signal.ticks
    /\ TickNotCutShort
    /\ TransportReleasedAtEnd

====
